---- MODULE Spec2Model ----
(***************************************************************************)
(* voice-call-timer (src/index.js): a relay that tracks a time budget per  *)
(* caller and ends the caller's call through the telephony provider when   *)
(* the budget has elapsed.                                                  *)
(*                                                                          *)
(* The state is the three Maps of the module (activeCalls, members,         *)
(* timers), the runtime's timer list (every pending setTimeout handle with  *)
(* the closure it captured), the provider requests awaiting their reply,    *)
(* the clock, and the call-control requests sent so far (how many times     *)
(* each one was sent).  One action                                          *)
(* models one handler turn of the event loop: an HTTP handler, a timer      *)
(* callback up to its await, or the continuation after the await.           *)
(*                                                                          *)
(* Request fields are JSON values: records [t, s, n] with t the JavaScript  *)
(* type, s the characters of a string and n the value of a number.          *)
(* Provider credentials are taken to be configured (new twilio.Twilio does  *)
(* not throw) and webhook envelopes to be well formed (data.userID and      *)
(* data.metadata.callSid are present).  An ActiveCall is modelled by its    *)
(* callSid: startTime and metadata are stored and never read.               *)
(***************************************************************************)
EXTENDS Integers, Sequences, FiniteSets, TLC

VARIABLES activeCalls, members, timers, timerList, nextHandle, inflight,
          requests, now, phase, last, arg, ret

vars == <<activeCalls, members, timers, timerList, nextHandle, inflight,
          requests, now, phase, last, arg, ret>>

(* ------------------------------ bounds --------------------------------- *)

MaxTimers == 3

MaxTime == 2000

TickStep == 1000

MaxTokenLen == 3

MaxPhoneLen == 6

(* --------------------------- JSON values ------------------------------- *)

JUndef == [t |-> "undefined", s |-> <<>>, n |-> 0]

JStr(chars) == [t |-> "string", s |-> chars, n |-> 0]

JNum(k) == [t |-> "number", s |-> <<>>, n |-> k]

\* JavaScript's ToBoolean on the values above, negated: !v
Falsy(v) ==
    \/ v.t = "undefined"
    \/ v.t = "string" /\ v.s = <<>>
    \/ v.t = "number" /\ v.n = 0

\* Mutant: the default is never substituted.
OrElse_first(a, b) == a

\* a || b
OrElse(a, b) == IF Falsy(a) THEN b ELSE a

(* ------------------------------- Maps ---------------------------------- *)

EmptyMap == [k \in {} |-> 0]

MapHas(m, k) == k \in DOMAIN m

MapSet(m, k, v) == [x \in DOMAIN m \cup {k} |-> IF x = k THEN v ELSE m[x]]

MapDelete(m, k) == [x \in DOMAIN m \ {k} |-> m[x]]

(* ----------------------------- constants ------------------------------- *)

DEFAULT_TIME_LIMIT == 2 * 60 * 1000

DEFAULT_END_MESSAGE ==
    JStr(<<"You have reached your time limit. The call will now end. Goodbye.">>)

(* --------------------------- parseDuration ----------------------------- *)

Digits == {"0", "1", "2", "3", "4", "5", "6", "7", "8", "9"}

DigitValue(c) ==
    CASE c = "0" -> 0 [] c = "1" -> 1 [] c = "2" -> 2 [] c = "3" -> 3
      [] c = "4" -> 4 [] c = "5" -> 5 [] c = "6" -> 6 [] c = "7" -> 7
      [] c = "8" -> 8 [] c = "9" -> 9

RECURSIVE parseInt(_)
parseInt(chars) ==
    IF chars = <<>> THEN 0
    ELSE 10 * parseInt(SubSeq(chars, 1, Len(chars) - 1))
         + DigitValue(chars[Len(chars)])

\* durationStr.match(/^(\d+)([sm])$/) succeeds
DurationMatches(chars) ==
    /\ Len(chars) >= 2
    /\ \A i \in 1..(Len(chars) - 1) : chars[i] \in Digits
    /\ chars[Len(chars)] \in {"s", "m"}

\* durationStr.match is not a function: a truthy value that is no string
parseDurationThrows(d) == ~Falsy(d) /\ d.t # "string"

parseDuration(d) ==
    IF Falsy(d) THEN DEFAULT_TIME_LIMIT
    ELSE IF ~DurationMatches(d.s) THEN DEFAULT_TIME_LIMIT
    ELSE LET value == parseInt(SubSeq(d.s, 1, Len(d.s) - 1))
             unit == d.s[Len(d.s)]
         IN  IF unit = "s" THEN value * 1000
             ELSE IF unit = "m" THEN value * 60 * 1000
             ELSE DEFAULT_TIME_LIMIT

(* --------------------------- obfuscatePhone ---------------------------- *)

Unknown == JStr(<<"u", "n", "k", "n", "o", "w", "n">>)

Xxxxx == <<"x", "x", "x", "x", "x">>

\* Mutant: the characters before the last five are dropped as well.
obfuscatePhone_dropsPrefix(phoneNumber) ==
    IF Falsy(phoneNumber) \/ phoneNumber.t # "string" THEN Unknown
    ELSE JStr(Xxxxx)

obfuscatePhone(phoneNumber) ==
    IF Falsy(phoneNumber) \/ phoneNumber.t # "string" THEN Unknown
    ELSE IF Len(phoneNumber.s) >= 5
         THEN JStr(SubSeq(phoneNumber.s, 1, Len(phoneNumber.s) - 5) \o Xxxxx)
         ELSE JStr(Xxxxx)

(* ------------------------------ inputs --------------------------------- *)

Alice == JStr(<<"1", "5", "5", "5", "0", "1">>)

Bob == JStr(<<"4", "2">>)

Users == {Alice, Bob}

\* userID as a request can carry it: a caller's identity, the empty string,
\* or nothing
UserIDInputs(callers) == callers \cup {JUndef, JStr(<<>>)}

DurationInputs == {JUndef, JNum(30), JStr(<<"1", "s">>)}

EndMessageInputs == {JUndef, JStr(<<"bye">>)}

CallSids == {"CA1", "CA2"}

EventTypes == {"runtime.call.start", "runtime.call.end", "runtime.call.transfer"}

\* every string of at most len characters of the alphabet
Strings(alphabet, len) == {JStr(chars) : chars \in UNION {[1..n -> alphabet] : n \in 0..len}}

\* duration tokens: digits, the two units, another unit, a decimal point, a blank
DurationTokens == Strings({"0", "5", "s", "m", "h", ".", " "}, MaxTokenLen)

\* identities as the handlers pass them to obfuscatePhone
PhoneInputs == Strings({"+", "1", "5"}, MaxPhoneLen)

\* a field of a request body: nothing, a number, or one of the strings above
ArgInputs == {JUndef, JNum(0), JNum(30)} \cup DurationTokens \cup PhoneInputs

(* ------------------------- the runtime's timers ------------------------ *)

\* timerList maps the handle of every pending timer to what its closure
\* captured (userID, callSid) and the time it is due.  A timer leaves the
\* list when it fires or is cleared; handles are never reused.
Handles == DOMAIN timerList

FireAt(h) == timerList[h].fireAt

LiveTimersOf(userID) == {h \in Handles : timerList[h].userID = userID}

\* setTimeout(() => endCall(userID, callSid), delay), returning nextHandle
setTimeout(list, userID, callSid, delay) ==
    MapSet(list, nextHandle,
           [userID |-> userID, callSid |-> callSid, fireAt |-> now + delay])

\* clearTimeout(handle): cancels a pending timer, nothing otherwise
clearTimeout(list, h) == IF MapHas(list, h) THEN MapDelete(list, h) ELSE list

NoHandle == 0

\* timers.get(userID): the handle, or undefined
TimersGet(userID) == IF MapHas(timers, userID) THEN timers[userID] ELSE NoHandle

(* ------------------------------- Init ---------------------------------- *)

\* ret before any call: which function returned, whether it threw, its value
NoReturn == [fn |-> "none", thrown |-> FALSE, value |-> JUndef]

Init ==
    /\ activeCalls = EmptyMap
    /\ members = EmptyMap
    /\ timers = EmptyMap
    /\ timerList = EmptyMap
    /\ nextHandle = 1
    /\ inflight = {}
    /\ requests = EmptyMap
    /\ now = 0
    /\ phase = [u \in Users |-> "none"]
    /\ last = [op |-> "none", userID |-> JUndef, status |-> 0]
    /\ arg = JUndef
    /\ ret = NoReturn

\* what the last handler turn was: its kind, the identity it was about and,
\* for an HTTP request, the status of the response
Handled(op, userID, status) ==
    /\ last' = [op |-> op, userID |-> userID, status |-> status]
    /\ UNCHANGED <<arg, ret>>

(* ------------------------- POST /api/member ---------------------------- *)

\* Mutant: the userID check is dropped.
MissingUserID_never(userID) == FALSE

\* if (!userID)
MissingUserID(userID) == Falsy(userID)

ApiMember(userID, duration, endMessage) ==
    IF MissingUserID(userID) THEN
        /\ Handled("member", userID, 400)
        /\ UNCHANGED <<activeCalls, members, timers, timerList, nextHandle,
                       inflight, requests, now, phase>>
    ELSE IF parseDurationThrows(duration) THEN
        /\ Handled("member", userID, 500)
        /\ UNCHANGED <<activeCalls, members, timers, timerList, nextHandle,
                       inflight, requests, now, phase>>
    ELSE
        LET timeLimit == parseDuration(duration) IN
        /\ members' = MapSet(members, userID,
                             [timeLimit |-> timeLimit,
                              endMessage |-> OrElse(endMessage, DEFAULT_END_MESSAGE)])
        /\ IF MapHas(activeCalls, userID) THEN
               LET callData == activeCalls[userID]
                   cleared == IF MapHas(timers, userID)
                              THEN clearTimeout(timerList, timers[userID])
                              ELSE timerList
               IN  /\ nextHandle <= MaxTimers
                   /\ timerList' = setTimeout(cleared, userID, callData.callSid,
                                              timeLimit)
                   /\ timers' = MapSet(timers, userID, nextHandle)
                   /\ nextHandle' = nextHandle + 1
           ELSE UNCHANGED <<timers, timerList, nextHandle>>
        /\ phase' = [phase EXCEPT ![userID] =
                        IF MapHas(activeCalls, userID) THEN "rearmed" ELSE @]
        /\ Handled("member", userID, 200)
        /\ UNCHANGED <<activeCalls, inflight, requests, now>>

(* ----------------------- POST /api/call-webhook ------------------------ *)

handleCallStart(userID, callSid) ==
    /\ activeCalls' = MapSet(activeCalls, userID,
                             [callSid |-> callSid])
    /\ IF ~MapHas(members, userID)
       THEN UNCHANGED <<timers, timerList, nextHandle>>
       ELSE LET member == members[userID]
                timeLimit == member.timeLimit
            IN  /\ nextHandle <= MaxTimers
                /\ timerList' = setTimeout(timerList, userID, callSid, timeLimit)
                /\ timers' = MapSet(timers, userID, nextHandle)
                /\ nextHandle' = nextHandle + 1
    /\ phase' = [phase EXCEPT ![userID] =
                    IF MapHas(members, userID) THEN "timed" ELSE "untimed"]
    /\ UNCHANGED members

\* Mutant: the ActiveCall is not deleted.
handleCallEnd_keepsCall(userID, callSid) ==
    /\ IF MapHas(timers, userID)
       THEN /\ timerList' = clearTimeout(timerList, timers[userID])
            /\ timers' = MapDelete(timers, userID)
       ELSE UNCHANGED <<timers, timerList>>
    /\ activeCalls' = activeCalls
    /\ members' = IF MapHas(members, userID) THEN MapDelete(members, userID)
                  ELSE members
    /\ phase' = [phase EXCEPT ![userID] = "ended"]
    /\ UNCHANGED nextHandle

\* Mutant: the MemberConfig is not deleted.
handleCallEnd_keepsMember(userID, callSid) ==
    /\ IF MapHas(timers, userID)
       THEN /\ timerList' = clearTimeout(timerList, timers[userID])
            /\ timers' = MapDelete(timers, userID)
       ELSE UNCHANGED <<timers, timerList>>
    /\ activeCalls' = MapDelete(activeCalls, userID)
    /\ members' = members
    /\ phase' = [phase EXCEPT ![userID] = "ended"]
    /\ UNCHANGED nextHandle

\* Mutant: the timer is cancelled but its entry is not deleted.
handleCallEnd_keepsTimerEntry(userID, callSid) ==
    /\ IF MapHas(timers, userID)
       THEN /\ timerList' = clearTimeout(timerList, timers[userID])
            /\ timers' = timers
       ELSE UNCHANGED <<timers, timerList>>
    /\ activeCalls' = MapDelete(activeCalls, userID)
    /\ members' = IF MapHas(members, userID) THEN MapDelete(members, userID)
                  ELSE members
    /\ phase' = [phase EXCEPT ![userID] = "ended"]
    /\ UNCHANGED nextHandle

handleCallEnd(userID, callSid) ==
    /\ IF MapHas(timers, userID)
       THEN /\ timerList' = clearTimeout(timerList, timers[userID])
            /\ timers' = MapDelete(timers, userID)
       ELSE UNCHANGED <<timers, timerList>>
    /\ activeCalls' = MapDelete(activeCalls, userID)
    /\ members' = IF MapHas(members, userID) THEN MapDelete(members, userID)
                  ELSE members
    /\ phase' = [phase EXCEPT ![userID] = "ended"]
    /\ UNCHANGED nextHandle

\* Mutant: every event that is no call-start is taken for a call-end.
Dispatch_elseEnd(type) ==
    IF type = "runtime.call.start" THEN "handleCallStart" ELSE "handleCallEnd"

\* the branch the webhook takes for an event type
Dispatch(type) ==
    IF type = "runtime.call.start" THEN "handleCallStart"
    ELSE IF type = "runtime.call.end" THEN "handleCallEnd"
    ELSE "ignore"

CallWebhook(type, userID, callSid) ==
    /\ CASE Dispatch(type) = "handleCallStart" -> handleCallStart(userID, callSid)
         [] Dispatch(type) = "handleCallEnd" -> handleCallEnd(userID, callSid)
         [] OTHER -> UNCHANGED <<activeCalls, members, timers, timerList,
                                 nextHandle, phase>>
    /\ Handled(type, userID, 200)
    /\ UNCHANGED <<inflight, requests, now>>

(* ------------------------------ endCall -------------------------------- *)

\* Mutant: the check that the call is still active is dropped.
CallStillActive_always(userID) == TRUE

\* if (!activeCalls.has(userID)) return
CallStillActive(userID) == MapHas(activeCalls, userID)

\* Mutant: the default sentence is spoken whatever was registered.
MemberOrDefault_alwaysDefault(userID) == [endMessage |-> DEFAULT_END_MESSAGE]

\* members.get(userID) || { endMessage: <the default sentence> }
MemberOrDefault(userID) ==
    IF MapHas(members, userID) THEN members[userID]
    ELSE [endMessage |-> DEFAULT_END_MESSAGE]

\* The timer callback: endCall up to its await.  The request is sent to the
\* provider before the function suspends.
Timeout(h) ==
    /\ h \in Handles
    /\ now >= FireAt(h)
    /\ timerList' = MapDelete(timerList, h)
    /\ LET userID == timerList[h].userID
           callSid == timerList[h].callSid
       IN  /\ IF ~CallStillActive(userID)
              THEN UNCHANGED <<inflight, requests>>
              ELSE LET member == MemberOrDefault(userID)
                       twiml == [userID |-> userID, callSid |-> callSid,
                                 message |-> member.endMessage]
                   IN  /\ requests' = MapSet(requests, twiml,
                                             IF MapHas(requests, twiml)
                                             THEN requests[twiml] + 1 ELSE 1)
                       /\ inflight' = inflight \cup
                                          {[handle |-> h, userID |-> userID,
                                            callSid |-> callSid]}
           /\ Handled("timeout", userID, 0)
    /\ UNCHANGED <<activeCalls, members, timers, nextHandle, now, phase>>

\* Mutant: the cleanup empties the three Maps instead of deleting one key.
ReplyOk_clearsEveryone(r) ==
    /\ r \in inflight
    /\ inflight' = inflight \ {r}
    /\ timerList' = clearTimeout(timerList, TimersGet(r.userID))
    /\ timers' = EmptyMap
    /\ activeCalls' = EmptyMap
    /\ members' = EmptyMap
    /\ Handled("reply.ok", r.userID, 0)
    /\ UNCHANGED <<nextHandle, requests, now, phase>>

\* the provider accepted the update: the lines after the await
ReplyOk(r) ==
    /\ r \in inflight
    /\ inflight' = inflight \ {r}
    /\ timerList' = clearTimeout(timerList, TimersGet(r.userID))
    /\ timers' = MapDelete(timers, r.userID)
    /\ activeCalls' = MapDelete(activeCalls, r.userID)
    /\ members' = MapDelete(members, r.userID)
    /\ Handled("reply.ok", r.userID, 0)
    /\ UNCHANGED <<nextHandle, requests, now, phase>>

\* the provider request failed: the catch block only logs
ReplyErr(r) ==
    /\ r \in inflight
    /\ inflight' = inflight \ {r}
    /\ Handled("reply.err", r.userID, 0)
    /\ UNCHANGED <<activeCalls, members, timers, timerList, nextHandle,
                   requests, now, phase>>

(* ------------------------------- clock --------------------------------- *)

Tick ==
    /\ now + TickStep <= MaxTime
    /\ now' = now + TickStep
    /\ Handled("tick", JUndef, 0)
    /\ UNCHANGED <<activeCalls, members, timers, timerList, nextHandle,
                   inflight, requests, phase>>

(* ---------------------------- specification ---------------------------- *)

\* the HTTP requests about the identities in callers
HttpRequest(callers) ==
    \/ \E userID \in UserIDInputs(callers), duration \in DurationInputs,
          endMessage \in EndMessageInputs :
            ApiMember(userID, duration, endMessage)
    \/ \E type \in EventTypes, userID \in callers, callSid \in CallSids :
            CallWebhook(type, userID, callSid)

\* the timer callbacks, the provider's replies and the passing of time
Background ==
    \/ \E h \in Handles : Timeout(h)
    \/ \E r \in inflight : ReplyOk(r)
    \/ \E r \in inflight : ReplyErr(r)
    \/ Tick

\* every sequence of requests about one identity
Next == HttpRequest({Alice}) \/ Background

Spec == Init /\ [][Next]_vars


(* The scenario of one timed call: starting from the empty state Alice is   *)
(* registered, her call starts, and no further request about her arrives.   *)
(* Pending timers fire once they are due and the provider answers every     *)
(* request.                                                                  *)

ScenarioRegister ==
    /\ phase[Alice] = "none"
    /\ \E duration \in DurationInputs, endMessage \in EndMessageInputs :
            ApiMember(Alice, duration, endMessage)

ScenarioCallStart ==
    /\ phase[Alice] = "none"
    /\ MapHas(members, Alice)
    /\ \E callSid \in CallSids :
            CallWebhook("runtime.call.start", Alice, callSid)

\* a request that is about no identity
ScenarioOther ==
    \E duration \in DurationInputs, endMessage \in EndMessageInputs :
        \E userID \in UserIDInputs({}) : ApiMember(userID, duration, endMessage)

NextScenario ==
    ScenarioRegister \/ ScenarioCallStart \/ ScenarioOther \/ Background

Reply == \E r \in inflight : ReplyOk(r) \/ ReplyErr(r)

SpecScenario ==
    /\ Init
    /\ [][NextScenario]_vars
    /\ WF_vars(Tick)
    /\ \A h \in 1..MaxTimers : WF_vars(Timeout(h))
    /\ WF_vars(Reply)

(* Two identities at once: Alice and Bob register with a one-second budget, *)
(* their calls start and end, in any interleaving.                           *)

PairRegister ==
    \E userID \in Users : ApiMember(userID, JStr(<<"1", "s">>), JUndef)

PairWebhook ==
    \E type \in {"runtime.call.start", "runtime.call.end"}, userID \in Users :
        CallWebhook(type, userID, "CA1")

NextPair == PairRegister \/ PairWebhook \/ Background

SpecPair == Init /\ [][NextPair]_vars

(* The two helper functions and the registration endpoint on one request    *)
(* field: arg is the field, drawn from ArgInputs, and ret what the last call *)
(* of a helper returned.                                                     *)

InitArg ==
    /\ activeCalls = EmptyMap
    /\ members = EmptyMap
    /\ timers = EmptyMap
    /\ timerList = EmptyMap
    /\ nextHandle = 1
    /\ inflight = {}
    /\ requests = EmptyMap
    /\ now = 0
    /\ phase = [u \in Users |-> "none"]
    /\ last = [op |-> "none", userID |-> JUndef, status |-> 0]
    /\ arg \in ArgInputs
    /\ ret = NoReturn

\* parseDuration(arg)
CallParseDuration ==
    /\ ret' = IF parseDurationThrows(arg)
              THEN [fn |-> "parseDuration", thrown |-> TRUE, value |-> JUndef]
              ELSE [fn |-> "parseDuration", thrown |-> FALSE,
                    value |-> JNum(parseDuration(arg))]
    /\ last' = [op |-> "parseDuration", userID |-> JUndef, status |-> 0]
    /\ UNCHANGED <<activeCalls, members, timers, timerList, nextHandle,
                   inflight, requests, now, phase, arg>>

\* obfuscatePhone(arg)
CallObfuscatePhone ==
    /\ ret' = [fn |-> "obfuscatePhone", thrown |-> FALSE,
               value |-> obfuscatePhone(arg)]
    /\ last' = [op |-> "obfuscatePhone", userID |-> JUndef, status |-> 0]
    /\ UNCHANGED <<activeCalls, members, timers, timerList, nextHandle,
                   inflight, requests, now, phase, arg>>

\* POST /api/member {userID: Alice, duration: arg}
RegisterArg == ApiMember(Alice, arg, JUndef)

NextArg == CallParseDuration \/ CallObfuscatePhone \/ RegisterArg

SpecArg == InitArg /\ [][NextArg]_vars

(* ------------------------------ properties ----------------------------- *)

\* the last instant the clock reaches
HorizonEnd == (MaxTime \div TickStep) * TickStep

\* the identity has no timer entry, no ActiveCall and no MemberConfig
Absent(userID) ==
    /\ ~MapHas(timers, userID)
    /\ ~MapHas(activeCalls, userID)
    /\ ~MapHas(members, userID)

\* the same, after the step
AbsentAfter(userID) ==
    /\ ~MapHas(timers', userID)
    /\ ~MapHas(activeCalls', userID)
    /\ ~MapHas(members', userID)

\* this step sends a call-control request for the identity
IssuedFor(userID) ==
    \E r \in DOMAIN requests' :
        /\ r.userID = userID
        /\ IF MapHas(requests, r) THEN requests'[r] > requests[r] ELSE TRUE

\* the handle of the timer that fires in this step
FiredHandle == CHOOSE h \in Handles : ~MapHas(timerList', h)

RECURSIVE SentOver(_)
SentOver(rs) ==
    IF rs = {} THEN 0
    ELSE LET r == CHOOSE x \in rs : TRUE IN requests[r] + SentOver(rs \ {r})

\* the number of call-control requests sent for the identity so far
SentFor(userID) == SentOver({r \in DOMAIN requests : r.userID = userID})

StoredMessages == {OrElse(m, DEFAULT_END_MESSAGE) : m \in EndMessageInputs}

\* C1: every caller identity has at most one live timer (a scheduled timeout
\* that has neither fired nor been cancelled), whatever the sequence of
\* registrations, call-starts, call-ends and expiries.
C1_AtMostOneLiveTimer ==
    \A u \in Users : Cardinality(LiveTimersOf(u)) <= 1

\* C2: when the terminator completes, with the provider request succeeded or
\* failed, the identity has no timer entry, no ActiveCall and no MemberConfig.
C2_CleanupWhateverTheReply ==
    last.op \in {"reply.ok", "reply.err"} => Absent(last.userID)

\* C3: once a call-end for u has been handled, no call-control request is sent
\* for u until a later call-start for u (phase[u] is "ended" from the call-end
\* to the next call-start).
C3_NoTerminationAfterCallEnd ==
    [][\A u \in Users : phase[u] = "ended" => ~IssuedFor(u)]_vars

\* a timer of Alice fired after her call had ended, and nothing was sent
C3_Witness ==
    /\ phase[Alice] = "ended"
    /\ last.op = "timeout"
    /\ last.userID = Alice
    /\ requests = EmptyMap

\* Alice's call c has started with message m registered and a timer that is
\* due within the horizon
C4_Started(c, m) ==
    /\ phase[Alice] = "timed"
    /\ MapHas(activeCalls, Alice) /\ activeCalls[Alice].callSid = c
    /\ MapHas(members, Alice) /\ members[Alice].endMessage = m
    /\ \E h \in Handles : FireAt(h) <= HorizonEnd

\* exactly one request has been sent, for call c with message m
C4_Issued(c, m) ==
    requests = MapSet(EmptyMap, [userID |-> Alice, callSid |-> c, message |-> m], 1)

\* C4: registered, then call started, then no further request about the
\* identity: the call-control request is eventually sent, exactly once, for
\* that call's id with the registered end message, and once the provider has
\* accepted it no MemberConfig, ActiveCall or timer entry is left.
C4_TimedCallTerminatedOnce ==
    /\ \A c \in CallSids, m \in StoredMessages : C4_Started(c, m) ~> C4_Issued(c, m)
    /\ [](SentFor(Alice) <= 1)
    /\ [](last.op = "reply.ok" => Absent(last.userID))

C4_Witness ==
    /\ last.op = "reply.ok"
    /\ C4_Issued("CA1", JStr(<<"bye">>))
    /\ Absent(Alice)

\* C5: after a registration has re-armed the timer of an active call (and
\* until the call ends or starts again), no timer that was pending for the
\* identity before fires: the timer that fires is the one the registration
\* armed, no earlier than the registration time plus the new limit.
C5_RearmSupersedesPendingTimers ==
    [][(last'.op = "timeout" /\ phase[last'.userID] = "rearmed") =>
          /\ FiredHandle = TimersGet(last'.userID)
          /\ now >= FireAt(FiredHandle)]_vars

\* C6: a registration without userID is answered 400 and changes no table and
\* no pending timer.
C6_MissingUserIDRejected ==
    [][(last'.op = "member" /\ Falsy(last'.userID)) =>
          /\ last'.status = 400
          /\ UNCHANGED <<members, activeCalls, timers, timerList>>]_vars

\* a registration with the empty string as userID was rejected while Alice
\* had a MemberConfig, an ActiveCall and a pending timer
C6_Witness ==
    /\ last.op = "member"
    /\ last.userID = JStr(<<>>)
    /\ last.status = 400
    /\ MapHas(members, Alice)
    /\ MapHas(activeCalls, Alice)
    /\ LiveTimersOf(Alice) # {}

\* C7: a webhook whose type is neither call-start nor call-end is answered 200
\* and changes no table and no pending timer.
C7_UnknownEventIgnored ==
    [][last'.op \in EventTypes \ {"runtime.call.start", "runtime.call.end"} =>
          /\ last'.status = 200
          /\ UNCHANGED <<members, activeCalls, timers, timerList>>]_vars

C7_Witness ==
    /\ last.op = "runtime.call.transfer"
    /\ last.status = 200
    /\ MapHas(members, Alice)
    /\ MapHas(activeCalls, Alice)
    /\ LiveTimersOf(Alice) # {}

\* C8: right after a call-end for u, u has no timer entry, no ActiveCall and
\* no MemberConfig, and the response is 200; a call-end for an identity that
\* has none of the three changes nothing.
C8_CallEndEvictsAndIsIdempotent ==
    [][last'.op = "runtime.call.end" =>
          /\ AbsentAfter(last'.userID)
          /\ last'.status = 200
          /\ Absent(last'.userID) =>
                UNCHANGED <<members, activeCalls, timers, timerList,
                            inflight, requests>>]_vars

\* a call-end was handled after the one timer ever armed had been set and
\* before it could fire
C8_Witness ==
    /\ last.op = "runtime.call.end"
    /\ nextHandle = 2
    /\ timerList = EmptyMap
    /\ requests = EmptyMap
    /\ now = 0

\* C9: a timer that fires for an identity with no ActiveCall sends no request
\* and changes no table.
C9_TerminatorAbsorbsStaleTimer ==
    [][(last'.op = "timeout" /\ ~MapHas(activeCalls, last'.userID)) =>
          UNCHANGED <<members, activeCalls, timers, inflight, requests>>]_vars

C9_Witness ==
    /\ last.op = "timeout"
    /\ last.userID = Alice
    /\ ~MapHas(activeCalls, Alice)
    /\ LiveTimersOf(Alice) # {}

\* C10: a call that started for an identity without MemberConfig arms no
\* timer, and while no registration for the identity arrives (phase[u] is
\* "untimed") no call-control request is sent for it.
C10_UntimedCallNeverTerminated ==
    [][\A u \in Users :
          /\ (phase'[u] = "untimed" /\ last'.op = "runtime.call.start")
                => timerList' = timerList
          /\ phase[u] = "untimed" => ~IssuedFor(u)]_vars


\* the call-control requests this step sends
IssuedRequests ==
    {r \in DOMAIN requests' :
        IF MapHas(requests, r) THEN requests'[r] > requests[r] ELSE TRUE}

\* C11: an accepted registration stores the end message it supplies, or the
\* default sentence when it supplies none (overwriting what was stored), and
\* the message of every call-control request is the stored end message of the
\* identity at expiry, or the default sentence when none is stored.
C11_MessageIsLastRegistered ==
    [][/\ (last'.op = "member" /\ last'.status = 200) =>
             \A d \in DurationInputs, m \in EndMessageInputs :
                 ApiMember(last'.userID, d, m) =>
                     members'[last'.userID].endMessage =
                         IF m.t = "string" /\ m.s # <<>> THEN m
                         ELSE DEFAULT_END_MESSAGE
       /\ \A r \in IssuedRequests :
             r.message = IF MapHas(members, r.userID)
                         THEN members[r.userID].endMessage
                         ELSE DEFAULT_END_MESSAGE]_vars

\* Alice's calls were ended once with a registered message and once with the
\* default sentence
C11_Witness ==
    /\ \E r \in DOMAIN requests : r.userID = Alice /\ r.message = JStr(<<"bye">>)
    /\ \E r \in DOMAIN requests : r.userID = Alice /\ r.message = DEFAULT_END_MESSAGE
    /\ last.op = "timeout"

\* the pending timers whose closure captured the identity, with what each holds
PendingOf(userID) == {<<h, timerList[h]>> : h \in LiveTimersOf(userID)}

\* the same, after the step
PendingAfterOf(userID) ==
    {<<h, timerList'[h]>> : h \in {k \in DOMAIN timerList' :
                                       timerList'[k].userID = userID}}

\* the MemberConfig, the ActiveCall and the timer entry of the identity
EntriesOf(userID) ==
    <<IF MapHas(members, userID) THEN {members[userID]} ELSE {},
      IF MapHas(activeCalls, userID) THEN {activeCalls[userID]} ELSE {},
      IF MapHas(timers, userID) THEN {timers[userID]} ELSE {}>>

\* the same, after the step
EntriesAfterOf(userID) ==
    <<IF MapHas(members', userID) THEN {members'[userID]} ELSE {},
      IF MapHas(activeCalls', userID) THEN {activeCalls'[userID]} ELSE {},
      IF MapHas(timers', userID) THEN {timers'[userID]} ELSE {}>>

\* C12: a registration, call-start, call-end, timer expiry or terminator
\* completion for one identity leaves the MemberConfig, the ActiveCall, the
\* timer entry and the pending timers of every other identity unchanged.
C12_IdentitiesIndependent ==
    [][\A userID \in Users :
          userID # last'.userID =>
              /\ EntriesAfterOf(userID) = EntriesOf(userID)
              /\ PendingAfterOf(userID) = PendingOf(userID)]_vars

C12_Witness ==
    /\ last.op = "reply.ok"
    /\ last.userID = Alice
    /\ Absent(Alice)
    /\ MapHas(members, Bob)
    /\ MapHas(activeCalls, Bob)
    /\ MapHas(timers, Bob)
    /\ timers[Bob] \in Handles

\* C13: the MemberConfig stored by an accepted registration has a strictly
\* positive timeLimit, whatever duration token the request carried.
C13_StoredTimeLimitPositive ==
    \A userID \in DOMAIN members : members[userID].timeLimit > 0

\* one or more decimal digits followed by exactly the unit
DigitsThen(chars, unit) ==
    /\ Len(chars) >= 2
    /\ chars[Len(chars)] = unit
    /\ \A i \in 1..(Len(chars) - 1) : chars[i] \in Digits

\* C14: parseDuration never fails; for digits followed by "s" it returns
\* digits*1000, for digits followed by "m" digits*60000, and for every other
\* value the registration endpoint passes to it the default 120000.
C14_ParseDurationTotal ==
    ret.fn = "parseDuration" =>
        /\ ~ret.thrown
        /\ ret.value =
             JNum(IF arg.t = "string" /\ DigitsThen(arg.s, "s")
                  THEN parseInt(SubSeq(arg.s, 1, Len(arg.s) - 1)) * 1000
                  ELSE IF arg.t = "string" /\ DigitsThen(arg.s, "m")
                  THEN parseInt(SubSeq(arg.s, 1, Len(arg.s) - 1)) * 60000
                  ELSE 120000)

\* what obfuscatePhone returns for a string of five characters or more: the
\* same length, the same first length-5 characters, "xxxxx" at the end
RedactedTail(in, out) ==
    /\ out.t = "string"
    /\ Len(out.s) = Len(in.s)
    /\ \A i \in 1..(Len(in.s) - 5) : out.s[i] = in.s[i]
    /\ \A i \in (Len(in.s) - 4)..Len(in.s) : out.s[i] = "x"

\* C15 (as stated): obfuscatePhone returns "xxxxx" for every string shorter
\* than five characters, the empty string included, a string of the same
\* length ending in "xxxxx" for every longer one, and "unknown" for an absent
\* or non-string value.
C15_RedactionAsStated ==
    ret.fn = "obfuscatePhone" =>
        IF arg.t # "string" THEN ret.value = Unknown
        ELSE IF Len(arg.s) < 5 THEN ret.value = JStr(Xxxxx)
        ELSE RedactedTail(arg, ret.value)

\* C15 (amended): obfuscatePhone returns "xxxxx" for every string of one to
\* four characters, a string of the same length that keeps the first length-5
\* characters and ends in "xxxxx" for every string of five or more, and
\* "unknown" for the empty string and for an absent or non-string value.
C15_Redaction ==
    ret.fn = "obfuscatePhone" =>
        IF arg.t # "string" \/ arg.s = <<>> THEN ret.value = Unknown
        ELSE IF Len(arg.s) < 5 THEN ret.value = JStr(Xxxxx)
        ELSE RedactedTail(arg, ret.value)

C15_Witness ==
    /\ ret.fn = "obfuscatePhone"
    /\ arg.t = "string"
    /\ Len(arg.s) = 6
    /\ ret.value = JStr(<<arg.s[1]>> \o Xxxxx)

\* C16: every call-control request is sent for the callSid of the identity's
\* ActiveCall at that moment; once a second call-start has overwritten the
\* ActiveCall, no request is sent for the earlier callSid.
C16_RequestTargetsActiveCall ==
    [][\A r \in IssuedRequests :
          /\ MapHas(activeCalls, r.userID)
          /\ activeCalls[r.userID].callSid = r.callSid]_vars

\* C17: when the provider's reply to a request sent for one call arrives
\* after the identity's ActiveCall has become another call, the cleanup
\* cancels no timer and removes no ActiveCall, MemberConfig or timer entry.
C17_CleanupSparesNewCall ==
    [][last'.op = "reply.ok" =>
          \A r \in inflight \ inflight' :
              (/\ MapHas(activeCalls, r.userID)
               /\ activeCalls[r.userID].callSid # r.callSid) =>
                  /\ activeCalls' = activeCalls
                  /\ members' = members
                  /\ timers' = timers
                  /\ timerList' = timerList]_vars

\* C18: at most one call-control request is ever sent for a provider call id.
C18_AtMostOneTerminationPerCall ==
    \A callSid \in CallSids :
        SentOver({r \in DOMAIN requests : r.callSid = callSid}) <= 1

\* C19: an identity with a timer entry has an ActiveCall and a MemberConfig,
\* and a registration for an identity without ActiveCall leaves the timer
\* entries as they were.
C19_TimerEntryHasCallAndMember ==
    [][/\ \A userID \in DOMAIN timers' :
             MapHas(activeCalls', userID) /\ MapHas(members', userID)
       /\ (last'.op = "member" /\ ~MapHas(activeCalls, last'.userID)) =>
             timers' = timers]_vars

C19_Witness ==
    /\ last.op = "reply.err"
    /\ last.userID = Alice
    /\ MapHas(timers, Alice)
    /\ timers[Alice] \notin Handles
    /\ MapHas(activeCalls, Alice)
    /\ MapHas(members, Alice)

====
